---- MODULE Spec2Model ----
(***************************************************************************)
(* lcMacroPipeline: the fan-out executor (macro_pipeline.py), the remote   *)
(* sync protocol (remote_utils.py) and the retiler (retiler.py), each as   *)
(* a state machine over one set of variables.                              *)
(*   SpecFan       MacroPipeline: tasks, setup_client, run and the workers *)
(*   SpecPush      push_directory_to_remote, the transport failing or not  *)
(*   SpecPull      pull_directory_from_remote and purge_local              *)
(*   SpecPushFile  push_file_to_remote on its own                          *)
(*   SpecRoundTrip push, pull and purge with a transport that holds        *)
(*   SpecOneCall   one Remote Sync call of any kind                        *)
(*   SpecSync      all of Remote Sync together                             *)
(*   SpecRetile    Retiler.validate over a shared output folder            *)
(*   SpecSplit     Retiler.split_and_redistribute followed by validate     *)
(***************************************************************************)
EXTENDS Integers, Sequences, FiniteSets, TLC

VARIABLES
    tasks,        \* MacroPipeline._tasks: the tasks in the order they were added
    client,       \* MacroPipeline.client: "unset" (attribute absent), a mode, or "closed"
    setupExc,     \* what the last setup_client call raised ("none": it returned)
    runPc,        \* position of run(): idle, submitting, gathering, shutdown, returned, raised
    futures,      \* run()'s local list of futures, one per submitted task
    outcomes,     \* what task.run did for each submitted task ("notrun" until a worker ran it)
    finishOrder,  \* the indices of the futures in the order the workers finished them
    results,      \* what run() returned
    runExc,       \* what run() raised ("none": nothing)
    shutdowns,    \* client.shutdown() calls made by the current run()
    lastCall,     \* the last method the caller invoked on the executor, with its argument
    local,        \* the local file system: path -> [kind, data], existing paths only
    remote,       \* the remote store: path -> [kind, data], existing paths only
    syncOp,       \* the last Remote Sync call: its name, what it raised, where a transport failure hit
    syncLog,      \* the remote-storage collaborator calls the last Remote Sync call made, in order
    prevOp,       \* the Remote Sync call before the last one: its name, whether it returned,
                  \* whether the transport failed it, whether it stopped between a delete and its upload
    pullTrail,    \* where the local pull target stands: whether a failed pull left it behind,
                  \* whether a pull has been refused since, whether purge_local has removed it
    inputFile,    \* Retiler.input_file: its stem, whether it exists and opens, its point count
    outFolder,    \* Retiler.output_folder: what each tile file name holds, if anything
    retileRecord, \* the retile record the last validate() built
    recordFile,   \* the record persisted as <stem>_retile_record.js
    validateExc,  \* what the last validate() raised ("none": it returned, "-": not called)
    grid,         \* Retiler.grid as tiling() set it up: bounds (the same on both axes) and tiles per side
    splitOut,     \* what the splitter makes of the input file on this grid: per tile number, its
                  \* bounding box and point count, or nothing
    flatFolder,   \* the files directly in Retiler.output_folder, by tile file name
    splitExc      \* what the last split_and_redistribute() raised ("none": it returned, "-": not called)

varsFan == <<tasks, client, setupExc, runPc, futures, outcomes, finishOrder,
             results, runExc, shutdowns, lastCall>>

varsSync == <<local, remote, syncOp, syncLog, prevOp, pullTrail>>

varsRetile == <<inputFile, outFolder, retileRecord, recordFile, validateExc,
                grid, splitOut, flatFolder, splitExc>>

vars == <<varsFan, varsSync, varsRetile>>

\* ---------------------------------------------------------------- bounds
MaxTasks == 3

\* The Pipeline objects a caller may hand to the executor.
TaskPool == {"one", "two"}

\* ------------------------------------------------------- python values
\* A python value is modelled as a triple <<type, a, b>>.
PyTuple(a, b) == <<"tuple", a, b>>
PyObj(r)      == <<"object", r, "-">>

\* What one call of task.run can do: return a value, or raise (kind, value).
\* KeyboardInterrupt is a BaseException that is not an Exception.
TaskOutcomes ==
    { [ok |-> TRUE,  ret |-> r,   exc |-> "None", val |-> "None"] : r \in {"r1"} }
    \cup
    { [ok |-> FALSE, ret |-> "-", exc |-> e[1],   val |-> e[2]] :
        e \in { <<"ValueError", "v1">>, <<"KeyboardInterrupt", "v2">> } }

NotRun == [ok |-> FALSE, ret |-> "-", exc |-> "notrun", val |-> "notrun"]

\* --------------------------------------------------------- _run_task(f)
\* The adapter the workers execute.  raised: whether an exception leaves the
\* adapter (and so puts the future in its error state); value: what it returns.
RunTask_NoCatch(o) ==
    [raised |-> ~o.ok,
     exc    |-> IF o.ok THEN "none" ELSE o.exc,
     value  |-> PyTuple("None", "None")]

RunTask_ReturnsResult(o) ==
    [raised |-> FALSE,
     exc    |-> "none",
     value  |-> IF o.ok THEN PyObj(o.ret) ELSE PyTuple(o.exc, o.val)]

RunTask(o) ==
    [raised |-> FALSE,
     exc    |-> "none",
     value  |-> IF o.ok THEN PyTuple("None", "None") ELSE PyTuple(o.exc, o.val)]

\* ------------------------------------------------ the backend collaborator
Pending == [state |-> "pending", value |-> PyTuple("-", "-"), exc |-> "none"]

\* Whether a client accepts submissions: an absent attribute raises
\* AttributeError, a client that was shut down refuses further work.
ClientError(c) ==
    CASE c = "unset"  -> "AttributeError"
      [] c = "closed" -> "ClosedClientError"
      [] OTHER        -> "none"

\* client.gather(futures): the results in the order of the futures handed in;
\* it re-raises the exception of the first future that is in its error state.
GatherResults_CompletionOrder(futs, order) ==
    [i \in 1..Len(order) |-> futs[order[i]].value]

GatherResults(futs, order) ==
    [i \in 1..Len(futs) |-> futs[i].value]

GatherError(futs) ==
    IF \E i \in 1..Len(futs) : futs[i].state = "error"
    THEN futs[CHOOSE i \in 1..Len(futs) :
                /\ futs[i].state = "error"
                /\ \A j \in 1..(i - 1) : futs[j].state # "error"].exc
    ELSE "none"

\* ---------------------------------------------------------- MacroPipeline
InRun == runPc \in {"submitting", "gathering", "shutdown"}

\* The locals and the return value of a finished run() are gone once the
\* caller goes on to its next statement.
RunForgotten ==
    /\ runPc' = "idle"
    /\ futures' = <<>>
    /\ outcomes' = <<>>
    /\ finishOrder' = <<>>
    /\ results' = <<>>
    /\ runExc' = "none"
    /\ shutdowns' = 0

TaskSeqs == UNION { [1..n -> TaskPool] : n \in 0..MaxTasks }

\* tasks.setter: replaces the collection by a copy of the iterable.
SetTasks(ts) ==
    /\ ~InRun
    /\ tasks' = ts
    /\ lastCall' = [op |-> "tasks", arg |-> "-"]
    /\ RunForgotten
    /\ UNCHANGED <<client, setupExc>>
    /\ UNCHANGED <<varsSync, varsRetile>>

\* add_task: appends to the collection.
AddTask(t) ==
    /\ ~InRun
    /\ Len(tasks) < MaxTasks
    /\ tasks' = Append(tasks, t)
    /\ lastCall' = [op |-> "add_task", arg |-> "-"]
    /\ RunForgotten
    /\ UNCHANGED <<client, setupExc>>
    /\ UNCHANGED <<varsSync, varsRetile>>

Modes == {"local", "ssh", "slurm", "other"}

SetupClient_SlurmFallsBackToLocal(mode) ==
    /\ ~InRun
    /\ lastCall' = [op |-> "setup_client", arg |-> mode]
    /\ IF mode \in {"local", "ssh", "slurm"}
       THEN /\ client' = (IF mode = "slurm" THEN "local" ELSE mode)
            /\ setupExc' = "none"
       ELSE /\ client' = client
            /\ setupExc' = "RuntimeError"
    /\ RunForgotten
    /\ UNCHANGED tasks
    /\ UNCHANGED <<varsSync, varsRetile>>

SetupClient(mode) ==
    /\ ~InRun
    /\ lastCall' = [op |-> "setup_client", arg |-> mode]
    /\ CASE mode = "local" -> /\ client' = "local"
                              /\ setupExc' = "none"
         [] mode = "ssh"   -> /\ client' = "ssh"
                              /\ setupExc' = "none"
         [] mode = "slurm" -> /\ client' = client
                              /\ setupExc' = "NotImplementedError"
         [] OTHER          -> /\ client' = client
                              /\ setupExc' = "RuntimeError"
    /\ RunForgotten
    /\ UNCHANGED tasks
    /\ UNCHANGED <<varsSync, varsRetile>>

\* run(), entry: the first use of self.client.
RunStart ==
    /\ ~InRun
    /\ lastCall' = [op |-> "run", arg |-> "-"]
    /\ futures' = <<>>
    /\ outcomes' = <<>>
    /\ finishOrder' = <<>>
    /\ results' = <<>>
    /\ shutdowns' = 0
    /\ IF ClientError(client) = "none"
       THEN /\ runPc' = IF Len(tasks) = 0 THEN "gathering" ELSE "submitting"
            /\ runExc' = "none"
       ELSE /\ runPc' = "raised"
            /\ runExc' = ClientError(client)
    /\ UNCHANGED <<tasks, client, setupExc>>
    /\ UNCHANGED <<varsSync, varsRetile>>

\* run(), the list comprehension: one client.submit per task, in task order.
RunSubmit ==
    /\ runPc = "submitting"
    /\ futures' = Append(futures, Pending)
    /\ outcomes' = Append(outcomes, NotRun)
    /\ runPc' = IF Len(futures) + 1 = Len(tasks) THEN "gathering" ELSE "submitting"
    /\ UNCHANGED <<tasks, client, setupExc, finishOrder, results, runExc,
                   shutdowns, lastCall>>
    /\ UNCHANGED <<varsSync, varsRetile>>

\* A worker executes _run_task(task.run) for a submitted task.
WorkerExec(i, o) ==
    /\ InRun
    /\ i \in 1..Len(futures)
    /\ futures[i].state = "pending"
    /\ LET r == RunTask(o)
       IN  futures' = [futures EXCEPT ![i] =
                          [state |-> IF r.raised THEN "error" ELSE "finished",
                           value |-> r.value,
                           exc   |-> r.exc]]
    /\ outcomes' = [outcomes EXCEPT ![i] = o]
    /\ finishOrder' = Append(finishOrder, i)
    /\ UNCHANGED <<tasks, client, setupExc, runPc, results, runExc,
                   shutdowns, lastCall>>
    /\ UNCHANGED <<varsSync, varsRetile>>

\* run(): client.gather(futures) blocks until every future is done.
RunGather_DoesNotWait ==
    /\ runPc = "gathering"
    /\ results' = GatherResults(futures, finishOrder)
    /\ runPc' = "shutdown"
    /\ runExc' = "none"
    /\ UNCHANGED <<tasks, client, setupExc, futures, outcomes, finishOrder,
                   shutdowns, lastCall>>
    /\ UNCHANGED <<varsSync, varsRetile>>

RunGather ==
    /\ runPc = "gathering"
    /\ \A i \in 1..Len(futures) : futures[i].state # "pending"
    /\ IF GatherError(futures) = "none"
       THEN /\ results' = GatherResults(futures, finishOrder)
            /\ runPc' = "shutdown"
            /\ runExc' = "none"
       ELSE /\ results' = <<>>
            /\ runPc' = "raised"
            /\ runExc' = GatherError(futures)
    /\ UNCHANGED <<tasks, client, setupExc, futures, outcomes, finishOrder,
                   shutdowns, lastCall>>
    /\ UNCHANGED <<varsSync, varsRetile>>

\* run(): client.shutdown(), then return results.
RunShutdownReturn_LeavesBackendUp ==
    /\ runPc = "shutdown"
    /\ runPc' = "returned"
    /\ UNCHANGED <<tasks, client, setupExc, futures, outcomes, finishOrder, results,
                   runExc, shutdowns, lastCall>>
    /\ UNCHANGED <<varsSync, varsRetile>>

RunShutdownReturn ==
    /\ runPc = "shutdown"
    /\ client' = "closed"
    /\ shutdowns' = shutdowns + 1
    /\ runPc' = "returned"
    /\ UNCHANGED <<tasks, setupExc, futures, outcomes, finishOrder, results,
                   runExc, lastCall>>
    /\ UNCHANGED <<varsSync, varsRetile>>


\* ====================================================== remote_utils.py
MaxLocalEntries == 3
MaxRemoteEntries == 2
MaxContent == 2

\* File and directory names.
Names == {"a", "b"}

\* The arguments of the calls: push(LocalSrc, RemoteDir), pull(LocalDst, RemoteDir).
LocalSrc == <<"src">>
LocalDst == <<"dst">>
RemoteDir == <<"t">>

DirNode == [kind |-> "dir", data |-> 0]
FileNode(c) == [kind |-> "file", data |-> c]

\* os.path.join(directory, record)
Join(dir, name) == Append(dir, name)

Parent(p) == SubSeq(p, 1, Len(p) - 1)

IsPrefix(p, q) == Len(p) <= Len(q) /\ SubSeq(q, 1, Len(p)) = p

\* os.path.exists / wdclient.check, os.path.isdir / wdclient.is_dir on a state
Exists(fs, p) == p \in DOMAIN fs
IsDir(fs, p) == p \in DOMAIN fs /\ fs[p].kind = "dir"

Put(fs, p, node) ==
    [q \in (DOMAIN fs) \cup {p} |-> IF q = p THEN node ELSE fs[q]]

\* shutil.rmtree / WebDAV DELETE: the record and everything beneath it
RemoveTree(fs, p) ==
    [q \in {r \in DOMAIN fs : ~IsPrefix(p, r)} |-> fs[q]]

\* os.makedirs(p): p and its missing ancestors become directories
MakeDirs(fs, p) ==
    [q \in (DOMAIN fs) \cup {SubSeq(p, 1, k) : k \in 1..Len(p)} |->
        IF q \in DOMAIN fs THEN fs[q] ELSE DirNode]

\* The names of the records of directory dir, in the order ord lists them.
Children(fs, dir, ord) ==
    SelectSeq(ord, LAMBDA n : Join(dir, n) \in DOMAIN fs)

\* The tree beneath dir, with paths relative to dir.
Subtree(fs, dir) ==
    [r \in {SubSeq(q, Len(dir) + 1, Len(q)) :
               q \in {x \in DOMAIN fs : IsPrefix(dir, x) /\ x # dir}} |->
        fs[dir \o r]]

\* ------------------------------------------------ trees the model starts from
\* The records a tree may hold, relative to its top directory: two records at
\* the top, one of which may be a directory with a record of its own.
RelPaths == {<<"a">>, <<"b">>, <<"a", "a">>}

TreeDomains(max) ==
    {D \in SUBSET RelPaths :
        /\ Cardinality(D) <= max
        /\ \A q \in D : Len(q) > 1 => Parent(q) \in D}

IsLeaf(D, q) == \A r \in D : ~(IsPrefix(q, r) /\ r # q)

\* Every tree over the relative paths with at most max records: a record with
\* records beneath it is a directory, any other is a file or an empty directory.
Trees(max, maxc) ==
    UNION { {t \in [D -> {DirNode} \cup {FileNode(c) : c \in 1..maxc}] :
                \A q \in D : ~IsLeaf(D, q) => t[q] = DirNode}
            : D \in TreeDomains(max) }

Root == (<<>> :> DirNode)

\* The tree t planted at dir (dir itself a directory) in fs.
Plant(fs, dir, t) ==
    [q \in (DOMAIN fs) \cup {dir} \cup {dir \o r : r \in DOMAIN t} |->
        IF q = dir THEN DirNode
        ELSE IF IsPrefix(dir, q) THEN t[SubSeq(q, Len(dir) + 1, Len(q))]
        ELSE fs[q]]

ListingOrders == {<<"a", "b">>, <<"b", "a">>}

\* ---------------------------------------- the remote-storage collaborator
\* A call threads the record st = [remote, local, log, status, n, ret, lst,
\* late, collab]: status is "ok" until something is raised, n counts the
\* collaborator calls, ret and lst hold the last call's return value, collab
\* is what the collaborator itself raised ("none": nothing).  The call number
\* failAt (0: none) fails in transport: before it has any effect, or (late)
\* after the store or the disk has carried it out.
WebDavExceptions ==
    {"WebDavException", "RemoteResourceNotFound", "RemoteParentNotFound",
     "OptionNotValid", "MethodNotSupported"}

Logged(st, op, p, out) ==
    [st EXCEPT !.n = st.n + 1,
               !.log = Append(st.log, [op |-> op, path |-> p, out |-> out])]

Raise(st, exc) == [st EXCEPT !.status = exc]

\* The collaborator raises exc out of a call: collab keeps what it raised.
Fail(st, exc) == [st EXCEPT !.status = exc, !.collab = exc]

Transport(st, failAt) == st.n + 1 = failAt

\* wdclient.check(p): whether p exists
WdCheck(st, p, failAt) ==
    IF Transport(st, failAt) THEN Fail(Logged(st, "check", p, "raise"), "WebDavException")
    ELSE [Logged(st, "check", p, IF Exists(st.remote, p) THEN "True" ELSE "False")
            EXCEPT !.ret = Exists(st.remote, p)]

\* wdclient.is_dir(p)
WdIsDir(st, p, failAt) ==
    IF Transport(st, failAt) THEN Fail(Logged(st, "is_dir", p, "raise"), "WebDavException")
    ELSE IF ~Exists(st.remote, p)
    THEN Fail(Logged(st, "is_dir", p, "raise"), "RemoteResourceNotFound")
    ELSE [Logged(st, "is_dir", p, IF IsDir(st.remote, p) THEN "True" ELSE "False")
            EXCEPT !.ret = IsDir(st.remote, p)]

\* wdclient.mkdir(p): needs the parent directory, refuses an existing record
WdMkdir(st, p, failAt) ==
    LET valid == IsDir(st.remote, Parent(p)) /\ ~Exists(st.remote, p)
        done == [st EXCEPT !.remote = Put(st.remote, p, DirNode)]
    IN  IF Transport(st, failAt)
        THEN Fail(Logged(IF st.late /\ valid THEN done ELSE st, "mkdir", p, "raise"),
                   "WebDavException")
        ELSE IF ~IsDir(st.remote, Parent(p))
        THEN Fail(Logged(st, "mkdir", p, "raise"), "RemoteParentNotFound")
        ELSE IF Exists(st.remote, p)
        THEN Fail(Logged(st, "mkdir", p, "raise"), "MethodNotSupported")
        ELSE Logged(done, "mkdir", p, "ok")

\* wdclient.clean(p): deletes p and everything beneath it
WdClean(st, p, failAt) ==
    LET done == [st EXCEPT !.remote = RemoveTree(st.remote, p)]
    IN  IF Transport(st, failAt)
        THEN Fail(Logged(IF st.late THEN done ELSE st, "clean", p, "raise"),
                   "WebDavException")
        ELSE Logged(done, "clean", p, "ok")

\* wdclient.upload_sync(rp, lp): writes the local file's contents to rp
WdUpload(st, rp, lp, failAt) ==
    LET valid == IsDir(st.remote, Parent(rp)) /\ ~IsDir(st.remote, rp)
        done == [st EXCEPT !.remote = Put(st.remote, rp, FileNode(st.local[lp].data))]
    IN  IF Transport(st, failAt)
        THEN Fail(Logged(IF st.late /\ valid THEN done ELSE st, "upload", rp, "raise"),
                   "WebDavException")
        ELSE IF ~IsDir(st.remote, Parent(rp))
        THEN Fail(Logged(st, "upload", rp, "raise"), "RemoteParentNotFound")
        ELSE IF IsDir(st.remote, rp)
        THEN Fail(Logged(st, "upload", rp, "raise"), "MethodNotSupported")
        ELSE Logged(done, "upload", rp, "ok")

\* wdclient.download_file(rp, lp): writes the remote file's contents to lp
WdDownload(st, rp, lp, failAt) ==
    LET valid == Exists(st.remote, rp) /\ ~IsDir(st.remote, rp)
        done == [st EXCEPT !.local = Put(st.local, lp, FileNode(st.remote[rp].data))]
    IN  IF Transport(st, failAt)
        THEN Fail(Logged(IF st.late /\ valid THEN done ELSE st, "download", rp, "raise"),
                   "WebDavException")
        ELSE IF ~Exists(st.remote, rp)
        THEN Fail(Logged(st, "download", rp, "raise"), "RemoteResourceNotFound")
        ELSE IF IsDir(st.remote, rp)
        THEN Fail(Logged(st, "download", rp, "raise"), "OptionNotValid")
        ELSE Logged(done, "download", rp, "ok")

\* wdclient.list(p): the record itself first, then the names of its records
WdList(st, p, ord, failAt) ==
    IF Transport(st, failAt) THEN Fail(Logged(st, "list", p, "raise"), "WebDavException")
    ELSE IF ~Exists(st.remote, p)
    THEN Fail(Logged(st, "list", p, "raise"), "RemoteResourceNotFound")
    ELSE [Logged(st, "list", p, "ok")
            EXCEPT !.lst = <<"."  >> \o (IF IsDir(st.remote, p)
                                         THEN Children(st.remote, p, ord)
                                         ELSE <<>>)]

Begin(l, r, late) ==
    [remote |-> r, local |-> l, log |-> <<>>, status |-> "ok", n |-> 0,
     ret |-> FALSE, lst |-> <<>>, late |-> late, collab |-> "none"]

\* ------------------------------------------------------ the sync operations
\* push_file_to_remote(wdclient, local_origin, remote_destination, file)
PushFile_NoParentCheck(st, lorigin, rdest, file, failAt) ==
    WdUpload(st, Join(rdest, file), Join(lorigin, file), failAt)

PushFile_RetriesUpload(st, lorigin, rdest, file, failAt) ==
    LET c == WdCheck(st, rdest, failAt)
    IN  IF c.status # "ok" THEN c
        ELSE IF c.ret = TRUE
        THEN LET u == WdUpload(c, Join(rdest, file), Join(lorigin, file), failAt)
             IN  IF u.status = "ok" THEN u
                 ELSE WdUpload([u EXCEPT !.status = "ok", !.collab = "none"],
                               Join(rdest, file), Join(lorigin, file), failAt)
        ELSE Raise(c, "RemoteResourceNotFound")

PushFile(st, lorigin, rdest, file, failAt) ==
    LET c == WdCheck(st, rdest, failAt)
    IN  IF c.status # "ok" THEN c
        ELSE IF c.ret = TRUE
        THEN WdUpload(c, Join(rdest, file), Join(lorigin, file), failAt)
        ELSE Raise(c, "RemoteResourceNotFound")

\* pull_file_from_remote(wdclient, local_destination, remote_origin, file)
PullFile(st, ldest, rorigin, file, failAt) ==
    WdDownload(st, Join(rorigin, file), Join(ldest, file), failAt)

\* push_directory_to_remote, lines 271-282: the remote target becomes, or must
\* already be, a directory.
PushTarget_NoConflictCheck(st, rdir, failAt) ==
    LET c == WdCheck(st, rdir, failAt)
    IN  IF c.status # "ok" THEN c
        ELSE IF c.ret = FALSE
        THEN LET m == WdMkdir(c, rdir, failAt)
             IN  IF m.status \in WebDavExceptions THEN Raise(m, "FileNotFoundError") ELSE m
        ELSE c

PushTarget_MkdirWithoutCheck(st, rdir, failAt) ==
    LET m == WdMkdir(st, rdir, failAt)
    IN  IF m.status \in WebDavExceptions THEN Raise(m, "FileNotFoundError") ELSE m

PushTarget(st, rdir, failAt) ==
    LET c == WdCheck(st, rdir, failAt)
    IN  IF c.status # "ok" THEN c
        ELSE IF c.ret = FALSE
        THEN LET m == WdMkdir(c, rdir, failAt)
             IN  IF m.status \in WebDavExceptions THEN Raise(m, "FileNotFoundError") ELSE m
        ELSE LET d == WdIsDir(c, rdir, failAt)
             IN  IF d.status # "ok" THEN d
                 ELSE IF d.ret = TRUE THEN d
                 ELSE Raise(d, "FileExistsError")

\* push_directory_to_remote, lines 293-295: one local file
PushRecordFile_NoClobber(st, ldir, rdir, lrecord, failAt) ==
    LET c == WdCheck(st, Join(rdir, lrecord), failAt)
    IN  IF c.status # "ok" THEN c
        ELSE IF c.ret THEN c
        ELSE PushFile(c, ldir, rdir, lrecord, failAt)

PushRecordFile_UploadOverExisting(st, ldir, rdir, lrecord, failAt) ==
    LET c == WdCheck(st, Join(rdir, lrecord), failAt)
    IN  IF c.status # "ok" THEN c
        ELSE PushFile(c, ldir, rdir, lrecord, failAt)

PushRecordFile(st, ldir, rdir, lrecord, failAt) ==
    LET c == WdCheck(st, Join(rdir, lrecord), failAt)
    IN  IF c.status # "ok" THEN c
        ELSE LET k == IF c.ret THEN WdClean(c, Join(rdir, lrecord), failAt) ELSE c
             IN  IF k.status # "ok" THEN k
                 ELSE PushFile(k, ldir, rdir, lrecord, failAt)

RECURSIVE PushDir(_, _, _, _, _), PushRecords(_, _, _, _, _, _)

\* push_directory_to_remote(wdclient, local_dir, remote_dir)
PushDir(st, ldir, rdir, failAt, ord) ==
    LET t == PushTarget(st, rdir, failAt)
    IN  IF t.status # "ok" THEN t
        ELSE PushRecords(t, ldir, rdir, Children(t.local, ldir, ord), failAt, ord)

\* push_directory_to_remote, lines 286-295: the loop over os.listdir(local_dir)
PushRecords(st, ldir, rdir, lrecords, failAt, ord) ==
    IF st.status # "ok" \/ lrecords = <<>> THEN st
    ELSE LET lrecord == Head(lrecords)
             done == IF IsDir(st.local, Join(ldir, lrecord))
                     THEN PushDir(st, Join(ldir, lrecord), Join(rdir, lrecord), failAt, ord)
                     ELSE PushRecordFile(st, ldir, rdir, lrecord, failAt)
         IN  PushRecords(done, ldir, rdir, Tail(lrecords), failAt, ord)

RECURSIVE PullDir(_, _, _, _, _), PullRecords(_, _, _, _, _, _)

\* pull_directory_from_remote(wdclient, local_dir, remote_dir)
PullDir_MergesIntoExisting(st, ldir, rdir, failAt, ord) ==
    LET c == WdCheck(st, rdir, failAt)
    IN  IF c.status # "ok" THEN c
        ELSE LET l == WdList(c, rdir, ord, failAt)
             IN  IF l.status # "ok" THEN l
                 ELSE PullRecords([l EXCEPT !.local = MakeDirs(l.local, ldir)],
                                  ldir, rdir, Tail(l.lst), failAt, ord)

PullDir_CreatesTargetFirst(st, ldir, rdir, failAt, ord) ==
    IF Exists(st.local, ldir) THEN Raise(st, "FileExistsError")
    ELSE LET m == [st EXCEPT !.local = MakeDirs(st.local, ldir)]
             c == WdCheck(m, rdir, failAt)
         IN  IF c.status # "ok" THEN c
             ELSE LET l == WdList(c, rdir, ord, failAt)
                  IN  IF l.status # "ok" THEN l
                      ELSE PullRecords(l, ldir, rdir, Tail(l.lst), failAt, ord)

PullDir(st, ldir, rdir, failAt, ord) ==
    IF Exists(st.local, ldir) THEN Raise(st, "FileExistsError")
    ELSE LET c == WdCheck(st, rdir, failAt)
         IN  IF c.status # "ok" THEN c
             ELSE LET l == WdList(c, rdir, ord, failAt)
                  IN  IF l.status # "ok" THEN l
                      ELSE PullRecords([l EXCEPT !.local = MakeDirs(l.local, ldir)],
                                       ldir, rdir, Tail(l.lst), failAt, ord)

\* pull_directory_from_remote, lines 205-219: the loop over the remote records
PullRecords(st, ldir, rdir, records, failAt, ord) ==
    IF st.status # "ok" \/ records = <<>> THEN st
    ELSE LET record == Head(records)
             d == WdIsDir(st, Join(rdir, record), failAt)
             done == IF d.status # "ok" THEN d
                     ELSE IF d.ret
                     THEN PullDir(d, Join(ldir, record), Join(rdir, record), failAt, ord)
                     ELSE PullFile(d, ldir, rdir, record, failAt)
         IN  PullRecords(done, ldir, rdir, Tail(records), failAt, ord)

\* check_path_exists(path, should_exist=True) of utils
CheckPathExists(fs, p) == IF Exists(fs, p) THEN "ok" ELSE "FileNotFoundError"

\* purge_local(local_record): shutil.rmtree refuses what is not a directory
PurgeLocalResult_EmptiesOnly(st, p) ==
    IF ~Exists(st.local, p) THEN Raise(st, "FileNotFoundError")
    ELSE [st EXCEPT !.local = Put(RemoveTree(st.local, p), p, DirNode)]

PurgeLocalResult(st, p) ==
    IF CheckPathExists(st.local, p) # "ok" THEN Raise(st, CheckPathExists(st.local, p))
    ELSE IF ~IsDir(st.local, p) THEN Raise(st, "NotADirectoryError")
    ELSE [st EXCEPT !.local = RemoveTree(st.local, p)]

\* ------------------------------------------------------------- the calls
\* A call stopped after it deleted a remote record and before it uploaded
\* the local file in its place.
InWindow(log) ==
    \E i \in 1..Len(log) :
        /\ log[i].op = "clean"
        /\ log[i].out = "ok"
        /\ ~\E j \in (i + 1)..Len(log) :
              log[j].op = "upload" /\ log[j].path = log[i].path /\ log[j].out = "ok"

NoTrail == [phase |-> "none", refused |-> FALSE]

\* The trail of the local pull target across the calls: a pull that raised
\* after it created the target leaves it "partial"; pulls refused for the
\* conflict are counted while it stays; a purge_local that returns makes it
\* "purged"; the pull after that "recovered" or again "partial".
PullTrailAfter(name, r) ==
    IF name = "pull"
    THEN IF r.status # "ok" /\ ~Exists(local, LocalDst) /\ Exists(r.local, LocalDst)
         THEN [phase |-> "partial", refused |-> FALSE]
         ELSE IF pullTrail.phase = "partial"
         THEN [pullTrail EXCEPT !.refused = pullTrail.refused \/ r.status = "FileExistsError"]
         ELSE IF pullTrail.phase = "purged" /\ r.status = "ok"
         THEN [pullTrail EXCEPT !.phase = "recovered"]
         ELSE NoTrail
    ELSE IF name = "purge_local"
    THEN IF r.status = "ok" /\ pullTrail.phase = "partial"
         THEN [pullTrail EXCEPT !.phase = "purged"]
         ELSE IF r.status = "ok" THEN NoTrail
         ELSE pullTrail
    ELSE pullTrail

Finished(name, r, failAt) ==
    /\ pullTrail' = PullTrailAfter(name, r)
    /\ remote' = r.remote
    /\ local' = r.local
    /\ syncLog' = r.log
    /\ syncOp' = [name |-> name, status |-> r.status, failAt |-> failAt, collab |-> r.collab]
    /\ prevOp' = [name |-> syncOp.name, ok |-> (syncOp.status = "ok"),
                  hit |-> (syncOp.failAt # 0), window |-> InWindow(syncLog)]
    /\ UNCHANGED <<varsFan, varsRetile>>

\* The transport may fail any one collaborator call of the run (0: none).
FailPoints(n) == 0..n

Push ==
    \E ord \in ListingOrders, late \in BOOLEAN :
      \E failAt \in FailPoints(PushDir(Begin(local, remote, late), LocalSrc, RemoteDir, 0, ord).n) :
        Finished("push",
                 PushDir(Begin(local, remote, late), LocalSrc, RemoteDir, failAt, ord), failAt)

Pull ==
    \E ord \in ListingOrders, late \in BOOLEAN :
      \E failAt \in FailPoints(PullDir(Begin(local, remote, late), LocalDst, RemoteDir, 0, ord).n) :
        Finished("pull",
                 PullDir(Begin(local, remote, late), LocalDst, RemoteDir, failAt, ord), failAt)

\* A push and a pull that the transport does not interrupt.
PushOk ==
    \E ord \in ListingOrders :
        Finished("push", PushDir(Begin(local, remote, FALSE), LocalSrc, RemoteDir, 0, ord), 0)

PullOk ==
    \E ord \in ListingOrders :
        Finished("pull", PullDir(Begin(local, remote, FALSE), LocalDst, RemoteDir, 0, ord), 0)

PurgeLocal ==
    Finished("purge_local", PurgeLocalResult(Begin(local, remote, FALSE), LocalDst), 0)

\* push_file_to_remote called on its own, for a file of the local source
\* directory, into the remote target or a directory beneath it.
PushFileCall ==
    \E file \in Names, rdest \in {RemoteDir, Join(RemoteDir, "a")}, late \in BOOLEAN :
      /\ Exists(local, Join(LocalSrc, file))
      /\ ~IsDir(local, Join(LocalSrc, file))
      /\ \E failAt \in FailPoints(PushFile(Begin(local, remote, late), LocalSrc, rdest, file, 0).n) :
           Finished("push_file",
                    PushFile(Begin(local, remote, late), LocalSrc, rdest, file, failAt), failAt)

\* pull_file_from_remote called on its own, for a record of the remote
\* target, into the local source directory.
PullFileCall ==
    \E file \in Names, late \in BOOLEAN :
      \E failAt \in FailPoints(PullFile(Begin(local, remote, late), LocalSrc, RemoteDir, file, 0).n) :
        Finished("pull_file",
                 PullFile(Begin(local, remote, late), LocalSrc, RemoteDir, file, failAt), failAt)

\* ============================================================ retiler.py
MaxPoints == 2

\* File stems as character sequences: "c" and "c1" are two input files that
\* send their tiles to the same output folder.
Stems == {<<"c">>, <<"c", "1">>}

\* The splitter names the k-th tile of <stem>.<suffix> <stem>_<k>.<suffix>.
TileName(stem, k) == stem \o <<"_", k>>

TileIds == {[stem |-> s, k |-> k] : s \in Stems, k \in {"1", "2"}}

TileOrder == << [stem |-> <<"c">>, k |-> "1"], [stem |-> <<"c", "1">>, k |-> "1"],
                [stem |-> <<"c">>, k |-> "2"], [stem |-> <<"c", "1">>, k |-> "2"] >>

Cells == {"tile_0_0", "tile_0_1"}

Absent == [cell |-> "-", kind |-> "absent", points |-> 0, readable |-> FALSE]

\* What a tile name can hold in the output folder: nothing, a point-cloud file
\* in a cell directory, a file that cannot be opened, or a directory.
TileStates ==
    {Absent}
    \cup {[cell |-> c, kind |-> "file", points |-> n, readable |-> TRUE] :
            c \in Cells, n \in 1..MaxPoints}
    \cup {[cell |-> "tile_0_0", kind |-> "file", points |-> 1, readable |-> FALSE],
          [cell |-> "tile_0_0", kind |-> "dir", points |-> 0, readable |-> FALSE]}

InputFiles ==
    {[stem |-> s, exists |-> TRUE, readable |-> TRUE, points |-> n] :
        s \in Stems, n \in 1..(2 * MaxPoints)}
    \cup {[stem |-> s, exists |-> TRUE, readable |-> FALSE, points |-> 1] : s \in Stems}
    \cup {[stem |-> s, exists |-> FALSE, readable |-> FALSE, points |-> 1] : s \in Stems}

\* _get_details_pc_file(filename): the header's point count, or None when the
\* file cannot be opened.
GetDetails(f) ==
    IF f.readable THEN [none |-> FALSE, count |-> f.points]
    ELSE [none |-> TRUE, count |-> 0]

\* check_file_exists(path, should_exist=True) of utils
CheckFileExists(f) == IF f.exists THEN "ok" ELSE "FileNotFoundError"

\* pathlib glob 'tile_*/<stem>*': the names in a cell directory that start
\* with the stem.
GlobMatch(folder, stem, id) ==
    /\ folder[id].kind # "absent"
    /\ IsPrefix(stem, TileName(id.stem, id.k))

RECURSIVE SumTiles(_, _, _, _)

\* validate(), lines 74-78: the loop over the glob's matches
SumTiles(folder, stem, ids, acc) ==
    IF acc.exc # "none" \/ ids = <<>> THEN acc
    ELSE LET id == Head(ids)
             tile == folder[id]
             next == IF GlobMatch(folder, stem, id) /\ tile.kind = "file"
                     THEN IF GetDetails(tile).none
                          THEN [acc EXCEPT !.exc = "TypeError"]
                          ELSE [acc EXCEPT !.split = acc.split + GetDetails(tile).count,
                                           !.to = Append(acc.to, tile.cell)]
                     ELSE acc
         IN  SumTiles(folder, stem, Tail(ids), next)

NoRecord == [file |-> <<>>, redistributed_to |-> <<>>, validated |-> FALSE, built |-> FALSE]

\* validate(), lines 80-81
ValidSplit(parent, split) == parent = split

\* validate(write_record_to_file): what it raises and the record it builds
ValidateResult(folder, inp) ==
    IF CheckFileExists(inp) # "ok" THEN [exc |-> CheckFileExists(inp), record |-> NoRecord]
    ELSE IF GetDetails(inp).none THEN [exc |-> "TypeError", record |-> NoRecord]
    ELSE LET acc == SumTiles(folder, inp.stem, TileOrder,
                             [exc |-> "none", split |-> 0, to |-> <<>>])
         IN  IF acc.exc # "none" THEN [exc |-> acc.exc, record |-> NoRecord]
             ELSE [exc |-> "none",
                   record |-> [file |-> inp.stem,
                               redistributed_to |-> acc.to,
                               validated |-> ValidSplit(GetDetails(inp).count, acc.split),
                               built |-> TRUE]]

Validate(write) ==
    LET r == ValidateResult(outFolder, inputFile)
    IN  /\ validateExc' = r.exc
        /\ retileRecord' = r.record
        /\ recordFile' = IF r.exc = "none" /\ write THEN r.record ELSE recordFile
        /\ UNCHANGED <<inputFile, outFolder, grid, splitOut, flatFolder, splitExc,
                       varsFan, varsSync>>

\* ------------------------------------------------ split_and_redistribute
MaxCoord == 4

TileNumbers == {"1", "2"}

\* The grids tiling() may have set up: the second one does not cover every
\* tile the splitter writes.
Grids == {[min |-> 0, max |-> MaxCoord, n |-> 2], [min |-> 1, max |-> MaxCoord - 1, n |-> 2]}

Spans == {sp \in (0..MaxCoord) \X (0..MaxCoord) : sp[1] <= sp[2]}

\* Bounding boxes of tiles: any extent along x, two extents along y.
Boxes ==
    {[minx |-> sx[1], maxx |-> sx[2], miny |-> sy[1], maxy |-> sy[2]] :
        sx \in Spans, sy \in {<<0, 1>>, <<MaxCoord, MaxCoord>>}}

\* Boxes that are a single point in a corner of the coordinate range.
CornerBoxes == {b \in Boxes : b.minx = b.maxx /\ b.minx \in {0, MaxCoord}}

NoBox == [minx |-> 0, maxx |-> 0, miny |-> 0, maxy |-> 0]

NoTile == [kind |-> "absent", points |-> 0, readable |-> FALSE, box |-> NoBox]

\* Grid.get_tile_index along one axis, for the coordinate x2 / 2: floor
\* division by the tile size, an index equal to n clamped to n - 1.
GetTileIndex(g, x2) ==
    LET i == ((x2 - 2 * g.min) * g.n) \div (2 * (g.max - g.min))
    IN  IF i = g.n THEN g.n - 1 ELSE i

\* _get_tile_name(x_index, y_index)
GetTileName(i, j) == "tile_" \o ToString(i) \o "_" \o ToString(j)

\* split_and_redistribute(), lines 52-55: the cell directory of a tile with
\* bounding box b, from the central point of the box
TileCell_ByLowerCorner(g, b) ==
    GetTileName(GetTileIndex(g, 2 * b.minx), GetTileIndex(g, 2 * b.miny))

TileCell(g, b) ==
    LET cpX2 == 2 * b.minx + (b.maxx - b.minx)
        cpY2 == 2 * b.miny + (b.maxy - b.miny)
    IN  GetTileName(GetTileIndex(g, cpX2), GetTileIndex(g, cpY2))

\* _run_PDAL_splitter: writes <stem>_<k> into the output folder for every
\* tile k the split has.
RunPDALSplitter(flat, stem, out) ==
    [id \in TileIds |->
        IF id.stem = stem /\ out[id.k].kind = "file" THEN out[id.k] ELSE flat[id]]

\* split_and_redistribute(), lines 44-48: the files of the output folder
\* whose stem starts with the input file's stem
IsTileOf(flat, stem, id) ==
    /\ flat[id].kind = "file"
    /\ IsPrefix(stem, TileName(id.stem, id.k))

RECURSIVE MoveTiles(_, _, _)

\* split_and_redistribute(), lines 49-59: the loop over the tiles
MoveTiles(st, g, ids) ==
    IF st.exc # "none" \/ ids = <<>> THEN st
    ELSE LET id == Head(ids)
             tile == st.flat[id]
         IN  IF ~tile.readable
             THEN [st EXCEPT !.exc = "TypeError"]
             ELSE MoveTiles(
                      [st EXCEPT !.folder[id] = [cell |-> TileCell(g, tile.box),
                                                 kind |-> "file",
                                                 points |-> tile.points,
                                                 readable |-> TRUE],
                                 !.flat[id] = NoTile],
                      g, Tail(ids))

\* split_and_redistribute(): what it raises and what it leaves in the
\* output folder and its cell directories
SplitResult(inp, g, out, flat, folder) ==
    IF CheckFileExists(inp) # "ok"
    THEN [exc |-> CheckFileExists(inp), flat |-> flat, folder |-> folder]
    ELSE IF ~inp.readable
    THEN [exc |-> "RuntimeError", flat |-> flat, folder |-> folder]
    ELSE LET written == RunPDALSplitter(flat, inp.stem, out)
             tiles == SelectSeq(TileOrder, LAMBDA id : IsTileOf(written, inp.stem, id))
         IN  MoveTiles([exc |-> "none", flat |-> written, folder |-> folder], g, tiles)

SplitAndRedistribute ==
    LET r == SplitResult(inputFile, grid, splitOut, flatFolder, outFolder)
    IN  /\ splitExc' = r.exc
        /\ flatFolder' = r.flat
        /\ outFolder' = r.folder
        /\ UNCHANGED <<inputFile, grid, splitOut, retileRecord, recordFile, validateExc,
                       varsFan, varsSync>>

\* ------------------------------------------------------- specifications
FanIdle ==
    /\ tasks = <<>>
    /\ client = "unset"
    /\ setupExc = "none"
    /\ runPc = "idle"
    /\ futures = <<>>
    /\ outcomes = <<>>
    /\ finishOrder = <<>>
    /\ results = <<>>
    /\ runExc = "none"
    /\ shutdowns = 0
    /\ lastCall = [op |-> "init", arg |-> "-"]

SyncIdle ==
    /\ local = Root
    /\ remote = Root
    /\ syncOp = [name |-> "init", status |-> "ok", failAt |-> 0, collab |-> "none"]
    /\ syncLog = <<>>
    /\ prevOp = [name |-> "init", ok |-> TRUE, hit |-> FALSE, window |-> FALSE]
    /\ pullTrail = NoTrail

\* The local source directory holds any tree; the remote target is absent, a
\* plain file, or a directory holding any tree; the local pull target is
\* absent or a plain file.
SyncStart(dsts) ==
    /\ \E t \in Trees(MaxLocalEntries, MaxContent), d \in dsts :
          local = IF d = "absent" THEN Plant(Root, LocalSrc, t)
                  ELSE Put(Plant(Root, LocalSrc, t), LocalDst, FileNode(1))
    /\ \E t \in Trees(MaxRemoteEntries, 1), d \in {"absent", "file", "dir"} :
          remote = CASE d = "absent" -> Root
                     [] d = "file"   -> Put(Root, RemoteDir, FileNode(1))
                     [] OTHER        -> Plant(Root, RemoteDir, t)
    /\ syncOp = [name |-> "init", status |-> "ok", failAt |-> 0, collab |-> "none"]
    /\ syncLog = <<>>
    /\ prevOp = [name |-> "init", ok |-> TRUE, hit |-> FALSE, window |-> FALSE]
    /\ pullTrail = NoTrail

SplitIdle ==
    /\ grid = [min |-> 0, max |-> MaxCoord, n |-> 2]
    /\ splitOut = [k \in TileNumbers |-> NoTile]
    /\ flatFolder = [id \in TileIds |-> NoTile]
    /\ splitExc = "-"

RetileIdle ==
    /\ inputFile = [stem |-> <<"c">>, exists |-> FALSE, readable |-> FALSE, points |-> 1]
    /\ outFolder = [id \in TileIds |-> Absent]
    /\ retileRecord = NoRecord
    /\ recordFile = NoRecord
    /\ validateExc = "-"
    /\ SplitIdle

InitFan ==
    /\ FanIdle
    /\ SyncIdle
    /\ RetileIdle

NextFan ==
    \/ \E ts \in TaskSeqs : SetTasks(ts)
    \/ \E t \in TaskPool : AddTask(t)
    \/ \E mode \in Modes : SetupClient(mode)
    \/ RunStart
    \/ RunSubmit
    \/ \E i \in 1..MaxTasks, o \in TaskOutcomes : WorkerExec(i, o)
    \/ RunGather
    \/ RunShutdownReturn

SpecFan == InitFan /\ [][NextFan]_vars

\* Pushes of the local source directory, each possibly cut short by a
\* transport failure.
InitPush ==
    /\ FanIdle
    /\ RetileIdle
    /\ SyncStart({"absent"})

NextPush == Push

SpecPush == InitPush /\ [][NextPush]_vars

\* Pulls into the local target and purges of it.
InitPull ==
    /\ FanIdle
    /\ RetileIdle
    /\ SyncStart({"absent", "file"})

NextPull ==
    \/ Pull
    \/ PurgeLocal

SpecPull == InitPull /\ [][NextPull]_vars

\* Pushes, pulls and purges in any order, none interrupted by the transport.
InitRoundTrip ==
    /\ FanIdle
    /\ RetileIdle
    /\ SyncStart({"absent"})

NextRoundTrip ==
    \/ PushOk
    \/ PullOk
    \/ PurgeLocal

SpecRoundTrip == InitRoundTrip /\ [][NextRoundTrip]_vars

\* Pushes, pulls and purges in any order.
InitSync ==
    /\ FanIdle
    /\ RetileIdle
    /\ SyncStart({"absent"})

NextSync ==
    \/ Push
    \/ Pull
    \/ PurgeLocal

SpecSync == InitSync /\ [][NextSync]_vars

\* Uploads of single files of the local source directory.
InitPushFile ==
    /\ FanIdle
    /\ RetileIdle
    /\ SyncStart({"absent"})

NextPushFile == PushFileCall

SpecPushFile == InitPushFile /\ [][NextPushFile]_vars

\* One Remote Sync call of any kind, from any state of the two sides.
InitOneCall ==
    /\ FanIdle
    /\ RetileIdle
    /\ SyncStart({"absent"})

NextOneCall ==
    \/ syncOp.name = "init" /\ Push
    \/ syncOp.name = "init" /\ Pull
    \/ syncOp.name = "init" /\ PushFileCall
    \/ syncOp.name = "init" /\ PullFileCall

SpecOneCall == InitOneCall /\ [][NextOneCall]_vars

\* One Retiler validating its input file against an output folder that any
\* retilers of the batch have filled.
InitRetile ==
    /\ FanIdle
    /\ SyncIdle
    /\ inputFile \in InputFiles
    /\ outFolder \in [TileIds -> TileStates]
    /\ retileRecord = NoRecord
    /\ recordFile = NoRecord
    /\ validateExc = "-"
    /\ SplitIdle

NextRetile == \E write \in BOOLEAN : Validate(write)

SpecRetile == InitRetile /\ [][NextRetile]_vars

\* One Retiler splitting its input file into an output folder whose cell
\* directories are still empty and which may hold a file of a sibling input,
\* and validating the result.
InitSplit ==
    /\ FanIdle
    /\ SyncIdle
    /\ inputFile \in {f \in InputFiles : f.points = 1}
    /\ outFolder = [id \in TileIds |-> Absent]
    /\ retileRecord = NoRecord
    /\ recordFile = NoRecord
    /\ validateExc = "-"
    /\ grid \in Grids
    /\ \E b1 \in Boxes, t2 \in {NoTile} \cup {[kind |-> "file", points |-> 1, readable |-> TRUE, box |-> b] : b \in CornerBoxes} :
          splitOut = [k \in TileNumbers |->
                        IF k = "1"
                        THEN [kind |-> "file", points |-> 1, readable |-> TRUE, box |-> b1]
                        ELSE t2]
    /\ \E other \in {NoTile,
                      [kind |-> "file", points |-> 1, readable |-> TRUE,
                       box |-> [minx |-> 0, maxx |-> 1, miny |-> 0, maxy |-> 1]],
                      [kind |-> "file", points |-> 1, readable |-> FALSE, box |-> NoBox]} :
          flatFolder = [id \in TileIds |->
                          IF id = [stem |-> <<"c", "1">>, k |-> "1"] THEN other ELSE NoTile]
    /\ splitExc = "-"

NextSplit ==
    \/ SplitAndRedistribute
    \/ \E write \in BOOLEAN : Validate(write)

SpecSplit == InitSplit /\ [][NextSplit]_vars

\* =================================================================== claims
\* ------------------------------------------------------------ fan-out

\* C1: when run() returns for K tasks it returns exactly K entries, entry i is
\* the entry of the future submitted for the i-th task added (whatever the
\* order in which the workers finished), and the entry of a task whose run
\* raised is the captured (exception kind, exception value) of that task.
C1_RunReturnsOrderedEntries ==
    runPc = "returned" =>
        /\ Len(results) = Len(tasks)
        /\ Len(outcomes) = Len(tasks)
        /\ \A i \in 1..Len(tasks) :
              /\ outcomes[i] \in TaskOutcomes
              /\ ~outcomes[i].ok =>
                    results[i] = PyTuple(outcomes[i].exc, outcomes[i].val)

\* C1 witness: a returned batch of three tasks whose last task finished
\* first, with two different failures among them.
C1_Witness ==
    /\ runPc = "returned"
    /\ Len(tasks) = 3
    /\ Len(finishOrder) = 3
    /\ finishOrder[1] = 3
    /\ \E i, j \in 1..3 :
          /\ ~outcomes[i].ok
          /\ ~outcomes[j].ok
          /\ outcomes[i].exc # outcomes[j].exc

\* C2 as stated: the entry of a task whose run succeeded is the value that
\* task.run() returned.
C2_Original_EntryIsReturnValue ==
    runPc = "returned" =>
        \A i \in 1..Len(results) :
            outcomes[i].ok => results[i] = PyObj(outcomes[i].ret)

\* C2 amended: the entry of a task whose run succeeded is the pair
\* (None, None), whatever task.run() returned.
C2_SuccessEntryIsNonePair ==
    runPc = "returned" =>
        \A i \in 1..Len(results) :
            outcomes[i].ok => results[i] = PyTuple("None", "None")

\* C2 witness: run() returned and some task of the batch succeeded.
C2_Witness ==
    /\ runPc = "returned"
    /\ \E i \in 1..Len(results) : outcomes[i].ok /\ outcomes[i].ret = "r1"

\* C3 as stated: a call of run() never raises to its caller.
C3_RunNeverRaises ==
    lastCall.op = "run" => (runPc # "raised" /\ runExc = "none")

\* C4: a failing task never aborts the batch (run() does not raise once tasks
\* are submitted), every task of a returned batch was run to completion, and
\* the entry of task i is a function of task i's own outcome alone.
C4_FailureIsolation ==
    /\ (runPc = "raised" => futures = <<>>)
    /\ \A i \in 1..Len(futures) : futures[i].state # "error"
    /\ runPc \in {"shutdown", "returned"} =>
          \A i \in 1..Len(futures) :
              /\ futures[i].state = "finished"
              /\ outcomes[i] \in TaskOutcomes
              /\ results[i] = (IF outcomes[i].ok
                               THEN PyTuple("None", "None")
                               ELSE PyTuple(outcomes[i].exc, outcomes[i].val))

\* C4 witness: the first task to finish failed, a sibling that finished after
\* it succeeded, and run() returned.
C4_Witness ==
    /\ runPc = "returned"
    /\ Len(finishOrder) >= 2
    /\ ~outcomes[finishOrder[1]].ok
    /\ outcomes[finishOrder[Len(finishOrder)]].ok

\* C9: setup_client('slurm') raises NotImplementedError, any mode other than
\* local, ssh and slurm raises RuntimeError, neither call configures a client
\* or submits a task, and no submission is ever made on a slurm client.
C9_SetupClientFailsFast ==
    /\ [](client # "slurm" /\ (futures # <<>> => lastCall.op = "run"))
    /\ [][ (lastCall'.op = "setup_client" /\ lastCall'.arg \notin {"local", "ssh"}) =>
              /\ setupExc' = (IF lastCall'.arg = "slurm"
                              THEN "NotImplementedError" ELSE "RuntimeError")
              /\ client' = client
              /\ futures' = <<>>
              /\ runPc' = "idle" ]_vars

\* C9 witness: setup_client('slurm') has just failed on an executor that never
\* had a client, and the executor holds tasks.
C9_Witness ==
    /\ lastCall = [op |-> "setup_client", arg |-> "slurm"]
    /\ setupExc = "NotImplementedError"
    /\ client = "unset"
    /\ tasks # <<>>

AllDone == \A i \in 1..Len(futures) : futures[i].state # "pending"

\* C14: run() awaits results only when a future has been submitted for each
\* of the K tasks; it holds no result before the barrier; it gets past the
\* barrier, and returns, only when none of the K futures is pending, and
\* what it returns then has K entries.
C14_SubmitAllThenBarrier ==
    /\ [](runPc \in {"gathering", "shutdown", "returned"} => Len(futures) = Len(tasks))
    /\ [](runPc \in {"submitting", "gathering"} => results = <<>>)
    /\ [](runPc \in {"shutdown", "returned"} => (AllDone /\ Len(results) = Len(tasks)))
    /\ [][ (runPc = "gathering" /\ runPc' # "gathering") => AllDone ]_vars
    /\ [][ runPc' = "returned" => (runPc \in {"shutdown", "returned"} /\ AllDone) ]_vars

\* C14 witness: run() returned for three tasks of which the first submitted
\* was the last to complete.
C14_Witness ==
    /\ runPc = "returned"
    /\ Len(tasks) = 3
    /\ Len(results) = 3
    /\ finishOrder[3] = 1
    /\ AllDone

BackendUp == client \in {"local", "ssh"}

ShutdownOnceAfterBarrier ==
    /\ [](shutdowns <= 1)
    /\ [](InRun => (shutdowns = 0 /\ BackendUp))
    /\ [](runPc = "returned" => (shutdowns = 1 /\ client = "closed" /\ AllDone))
    /\ [][ shutdowns' > shutdowns => (runPc = "shutdown" /\ AllDone /\ client' = "closed") ]_vars
    /\ [][ (runPc = "gathering" /\ runPc' # "gathering") => runPc' = "shutdown" ]_vars

\* C15 as stated: every run() on a backend shuts it down exactly once, after
\* the barrier and whether or not a task failed; and once a run() has
\* returned the executor never runs a batch again: its backend stays shut
\* down, whatever is called next.
C15_Original_NeverRunsAgain ==
    /\ ShutdownOnceAfterBarrier
    /\ [][ client = "closed" => (client' = "closed" /\ ~InRun') ]_vars

\* C15 amended: every run() on a backend shuts it down exactly once, after
\* the barrier and whether or not a task failed; after run() the backend is
\* shut down, and a run() on the executor raises without submitting anything
\* for as long as setup_client has not attached a new backend, which only a
\* setup_client call that returns does.
C15_ShutdownOnceAndNeedsSetup ==
    /\ ShutdownOnceAfterBarrier
    /\ [][ (client = "closed" /\ lastCall'.op = "run" /\ runPc' # runPc) =>
              (runPc' = "raised" /\ futures' = <<>> /\ client' = "closed") ]_vars
    /\ [][ (client = "closed" /\ client' # "closed") =>
              (lastCall'.op = "setup_client" /\ setupExc' = "none" /\ BackendUp') ]_vars

\* C15 witness: run() returned with the backend shut down once, after a
\* batch in which a task failed and another succeeded.
C15_Witness ==
    /\ runPc = "returned"
    /\ shutdowns = 1
    /\ client = "closed"
    /\ \E i, j \in 1..Len(outcomes) : ~outcomes[i].ok /\ outcomes[j].ok

\* ------------------------------------------------------------ remote sync
SrcTree == Subtree(local, LocalSrc)
DstTree == Subtree(local, LocalDst)
RemoteTree == Subtree(remote, RemoteDir)

PulledAfterPush ==
    /\ syncOp.name = "pull"
    /\ syncOp.status = "ok"
    /\ prevOp.name = "push"
    /\ prevOp.ok

C6_PullIntoExistingFails ==
    [][ (syncOp'.name = "pull" /\ Exists(local, LocalDst)) =>
            /\ syncOp'.status = "FileExistsError"
            /\ syncLog' = <<>>
            /\ local' = local
            /\ remote' = remote ]_vars

\* C6 witness: a pull has just been refused because the local target is a
\* directory left by an earlier pull, while the remote directory exists.
C6_Witness ==
    /\ syncOp.name = "pull"
    /\ syncOp.status = "FileExistsError"
    /\ prevOp.name = "pull"
    /\ IsDir(local, LocalDst)
    /\ IsDir(remote, RemoteDir)
    /\ syncLog = <<>>

Mutating(e) == e.op \in {"mkdir", "upload", "clean"}

\* C7: a push whose remote target exists and is not a directory raises
\* FileExistsError (unless the transport fails first) without any mkdir,
\* upload or delete and leaves the remote store as it was; the same holds for
\* the target of every directory beneath it: nothing at or under a
\* conflicting path is created, uploaded or deleted by the push.  A remote
\* directory that did not exist is created (mkdir) before any upload or
\* delete beneath it.
C7_PushConflictAndMkdirFirst ==
    [][ syncOp'.name = "push" =>
          /\ (Exists(remote, RemoteDir) /\ ~IsDir(remote, RemoteDir)) =>
                /\ syncOp'.status \in {"FileExistsError", "WebDavException"}
                /\ syncOp'.failAt = 0 => syncOp'.status = "FileExistsError"
                /\ remote' = remote
                /\ \A i \in 1..Len(syncLog') : ~Mutating(syncLog'[i])
          /\ syncOp'.status = "FileExistsError" =>
                /\ Len(syncLog') >= 2
                /\ syncLog'[Len(syncLog')].op = "is_dir"
                /\ syncLog'[Len(syncLog')].out = "False"
                /\ \A i \in 1..Len(syncLog') :
                      Mutating(syncLog'[i]) =>
                          ~IsPrefix(syncLog'[Len(syncLog')].path, syncLog'[i].path)
          /\ \A j \in 1..Len(syncLog') :
                (syncLog'[j].op \in {"upload", "clean"}) =>
                    \A k \in 1..(Len(syncLog'[j].path) - 1) :
                        LET q == SubSeq(syncLog'[j].path, 1, k)
                        IN  ~Exists(remote, q) =>
                               \E i \in 1..(j - 1) :
                                   /\ syncLog'[i].op = "mkdir"
                                   /\ syncLog'[i].path = q
                                   /\ syncLog'[i].out = "ok"
          /\ (syncOp'.status = "ok" => IsDir(remote', RemoteDir)) ]_vars

\* C7 witness: the push of a directory holding one file onto a remote target
\* that is a plain file was refused.
C7_Witness ==
    /\ syncOp.name = "push"
    /\ syncOp.status = "FileExistsError"
    /\ prevOp.name = "init"
    /\ Exists(remote, RemoteDir)
    /\ ~IsDir(remote, RemoteDir)
    /\ DOMAIN SrcTree = {<<"a">>}
    /\ SrcTree[<<"a">>].kind = "file"

RetriedPush ==
    /\ syncOp.name = "push"
    /\ syncOp.failAt = 0
    /\ prevOp.name = "push"
    /\ ~prevOp.ok

\* A remote record that is not a directory sits where the push needs one.
Conflict ==
    \/ (Exists(remote, RemoteDir) /\ ~IsDir(remote, RemoteDir))
    \/ \E q \in DOMAIN SrcTree :
          /\ SrcTree[q].kind = "dir"
          /\ Exists(remote, RemoteDir \o q)
          /\ ~IsDir(remote, RemoteDir \o q)

EveryLocalFileOnRemote ==
    \A q \in DOMAIN SrcTree :
        /\ (RemoteDir \o q) \in DOMAIN remote
        /\ remote[RemoteDir \o q] = SrcTree[q]

\* C10: a push re-invoked after a push that was aborted, and itself hit by no
\* failure, leaves every record of the local tree on the remote at its target
\* path with the local contents.  The leftovers of the aborted push never make
\* the retry fail: the only error a retry that the transport does not
\* interrupt can raise is the conflict error for a remote record that is not
\* a directory at the target path of a local directory, and no push creates
\* or removes such a record.
C10_PushSafeToRetry ==
    /\ [](RetriedPush =>
            /\ syncOp.status \in {"ok", "FileExistsError"}
            /\ (syncOp.status = "FileExistsError") <=> Conflict
            /\ syncOp.status = "ok" => EveryLocalFileOnRemote)
    /\ [][syncOp'.name = "push" => (Conflict' <=> Conflict)]_vars

\* C10 witness: the first push stopped between the delete and the upload of
\* a clobbered file, and the retry succeeded for a tree of two records.
C10_Witness ==
    /\ RetriedPush
    /\ prevOp.hit
    /\ prevOp.window
    /\ syncOp.status = "ok"
    /\ Cardinality(DOMAIN SrcTree) = 2
    /\ EveryLocalFileOnRemote

\* C11: while the target that a failed pull left behind is there, every pull
\* is refused with FileExistsError, without a call to the remote store and
\* without touching the local tree; after purge_local has removed it, a pull
\* that the transport does not interrupt returns and the target holds the
\* remote directory's tree.
C11_PullNeedsPurge ==
    /\ [](pullTrail.phase = "partial" => IsDir(local, LocalDst))
    /\ [](pullTrail.phase = "purged" => ~Exists(local, LocalDst))
    /\ [][ (pullTrail.phase = "partial" /\ syncOp'.name = "pull") =>
              /\ syncOp'.status = "FileExistsError"
              /\ syncLog' = <<>>
              /\ local' = local ]_vars
    /\ [][ (pullTrail.phase = "purged" /\ syncOp'.name = "pull" /\ syncOp'.failAt = 0) =>
              /\ syncOp'.status = "ok"
              /\ Subtree(local', LocalDst) = Subtree(remote', RemoteDir) ]_vars

\* C11 witness: a pull failed partway, the next pull was refused, purge_local
\* removed the target and the pull after it brought a file.
C11_Witness ==
    /\ pullTrail.phase = "recovered"
    /\ pullTrail.refused
    /\ syncOp.name = "pull"
    /\ syncOp.status = "ok"
    /\ prevOp.name = "purge_local"
    /\ \E q \in DOMAIN DstTree : DstTree[q].kind = "file"

\* C12: purge_local of a path that exists, directory or plain file, returns
\* and leaves neither the path nor anything beneath it; purge_local of a
\* path that does not exist raises FileNotFoundError and changes nothing.
C12_PurgeRemovesAnyRecord ==
    [][ syncOp'.name = "purge_local" =>
          IF Exists(local, LocalDst)
          THEN /\ syncOp'.status = "ok"
               /\ \A q \in DOMAIN local' : ~IsPrefix(LocalDst, q)
          ELSE /\ syncOp'.status = "FileNotFoundError"
               /\ local' = local ]_vars

Calls(log, op, path) == {i \in 1..Len(log) : log[i].op = op /\ log[i].path = path}

LocalFiles == {q \in DOMAIN SrcTree : SrcTree[q].kind = "file"}

\* C16: in a push that returns, every local file is uploaded exactly once,
\* whatever the remote holds; a record that occupied its target path is
\* deleted once, before that upload, and nothing is deleted otherwise;
\* nothing but the local files is uploaded; the calls made for a
\* subdirectory and everything beneath it are consecutive (depth first, one
\* record after the other).
C16_ClobberThenUploadOnce ==
    [][ (syncOp'.name = "push" /\ syncOp'.status = "ok") =>
          /\ \A q \in LocalFiles :
                LET rp == RemoteDir \o q
                    ups == Calls(syncLog', "upload", rp)
                    cls == Calls(syncLog', "clean", rp)
                IN  /\ Cardinality(ups) = 1
                    /\ \A u \in ups : syncLog'[u].out = "ok"
                    /\ Exists(remote, rp) =>
                          /\ Cardinality(cls) = 1
                          /\ \A c \in cls, u \in ups : c < u /\ syncLog'[c].out = "ok"
                    /\ ~Exists(remote, rp) => cls = {}
                    /\ remote'[rp] = SrcTree[q]
          /\ \A i \in 1..Len(syncLog') :
                syncLog'[i].op \in {"upload", "clean"} =>
                    \E q \in LocalFiles : syncLog'[i].path = RemoteDir \o q
          /\ \A d \in DOMAIN SrcTree :
                SrcTree[d].kind = "dir" =>
                    \A i, j, k \in 1..Len(syncLog') :
                        (/\ i < j
                         /\ j < k
                         /\ IsPrefix(RemoteDir \o d, syncLog'[i].path)
                         /\ IsPrefix(RemoteDir \o d, syncLog'[k].path)) =>
                            IsPrefix(RemoteDir \o d, syncLog'[j].path) ]_vars

\* C16 witness: a push that returned right after a push that returned, so
\* that every target held the identical file: the tree has a file, and a
\* directory with a file, the directory was traversed first, and each file
\* was deleted and then uploaded.
C16_Witness ==
    /\ syncOp.name = "push"
    /\ syncOp.status = "ok"
    /\ prevOp.name = "push"
    /\ prevOp.ok
    /\ LocalFiles = {<<"b">>, <<"a", "a">>}
    /\ \A q \in LocalFiles :
          /\ Cardinality(Calls(syncLog, "clean", RemoteDir \o q)) = 1
          /\ Cardinality(Calls(syncLog, "upload", RemoteDir \o q)) = 1
    /\ \E i, j \in 1..Len(syncLog) :
          /\ i < j
          /\ syncLog[i].op = "upload" /\ syncLog[i].path = <<"t", "a", "a">>
          /\ syncLog[j].op = "upload" /\ syncLog[j].path = <<"t", "b">>

Listed(log, path) ==
    \E i \in 1..Len(log) : log[i].op = "list" /\ log[i].path = path /\ log[i].out = "ok"

\* C17: a pull into a fresh local target asks whether the remote directory
\* exists before anything else and lists it right after; the same holds for
\* every directory beneath it.  A local directory is created only once the
\* listing of its remote directory has answered, so the pull of a remote path
\* that does not exist raises and leaves the local tree as it was.  When
\* the pull returns, every remote directory beneath the remote directory was
\* listed, every remote file was downloaded once, and the local target holds
\* the same tree.
C17_PullChecksThenListsThenCreates ==
    [][ (syncOp'.name = "pull" /\ ~Exists(local, LocalDst)) =>
          /\ Len(syncLog') >= 1
          /\ syncLog'[1].op = "check"
          /\ syncLog'[1].path = RemoteDir
          /\ \A i \in 1..Len(syncLog') :
                syncLog'[i].op = "list" =>
                    /\ i > 1
                    /\ syncLog'[i - 1].op = "check"
                    /\ syncLog'[i - 1].path = syncLog'[i].path
                    /\ syncLog'[i - 1].out # "raise"
          /\ \A q \in DOMAIN local' :
                (IsPrefix(LocalDst, q) /\ local'[q].kind = "dir") =>
                    Listed(syncLog', RemoteDir \o SubSeq(q, Len(LocalDst) + 1, Len(q)))
          /\ ~Exists(remote, RemoteDir) =>
                /\ syncOp'.status \in {"RemoteResourceNotFound", "WebDavException"}
                /\ local' = local
          /\ syncOp'.status = "ok" =>
                /\ Subtree(local', LocalDst) = Subtree(remote, RemoteDir)
                /\ \A q \in DOMAIN Subtree(remote, RemoteDir) :
                      IF remote[RemoteDir \o q].kind = "dir"
                      THEN Listed(syncLog', RemoteDir \o q)
                      ELSE Cardinality(Calls(syncLog', "download", RemoteDir \o q)) = 1 ]_vars

\* C17 witness: the pull of a remote path that does not exist raised after
\* the question and the refused listing, and there is no local target.
C17_Witness ==
    /\ syncOp.name = "pull"
    /\ syncOp.failAt = 0
    /\ syncOp.status = "RemoteResourceNotFound"
    /\ ~Exists(remote, RemoteDir)
    /\ ~Exists(local, LocalDst)
    /\ Len(syncLog) = 2
    /\ syncLog[1] = [op |-> "check", path |-> RemoteDir, out |-> "False"]
    /\ syncLog[2].op = "list"
    /\ syncLog[2].out = "raise"

SyncCalls == {"push", "pull", "push_file", "pull_file"}

CollaboratorRaised == syncOp.collab # "none"

\* No collaborator call follows one that raised, and the call that raised is
\* the one the collaborator's error was recorded for.
StopsAtFailure ==
    /\ \A i \in 1..Len(syncLog) : syncLog[i].out = "raise" => i = Len(syncLog)
    /\ CollaboratorRaised <=> (syncLog # <<>> /\ syncLog[Len(syncLog)].out = "raise")
    /\ CollaboratorRaised => syncOp.status # "ok"

\* C20 as stated: every error the collaborator raises during a push, a pull,
\* a file upload or a file download ends the call at once and is the error
\* the caller gets.
C20_Original_SameErrorAlways ==
    syncOp.name \in SyncCalls =>
        /\ StopsAtFailure
        /\ CollaboratorRaised => syncOp.status = syncOp.collab

\* C20 amended: every error the collaborator raises ends the call at once,
\* with no further collaborator call; the caller gets that same error,
\* except for an error of mkdir during a push, for which the caller gets
\* FileNotFoundError; no error of the collaborator is swallowed.
C20_SameErrorExceptMkdir ==
    syncOp.name \in SyncCalls =>
        /\ StopsAtFailure
        /\ CollaboratorRaised =>
              IF syncLog[Len(syncLog)].op = "mkdir"
              THEN syncOp.name = "push" /\ syncOp.status = "FileNotFoundError"
              ELSE syncOp.status = syncOp.collab

\* C20 witness: a pull stopped at a download the transport failed, after it
\* had listed the remote directory, and the caller got the WebDAV error.
C20_Witness ==
    /\ syncOp.name = "pull"
    /\ syncOp.collab = "WebDavException"
    /\ syncOp.status = "WebDavException"
    /\ syncLog[Len(syncLog)].op = "download"
    /\ syncLog[Len(syncLog)].out = "raise"
    /\ IsDir(local, LocalDst)

\* The remote records a step removed or changed.
Touched == {p \in DOMAIN remote : p \notin DOMAIN remote' \/ remote'[p] # remote[p]}

\* C21: a push, whether it returns or raises, removes or changes no remote
\* record other than a plain file at the target path of a local file of the
\* pushed tree, and leaves the local tree as it was.
C21_PushTouchesOnlyTargetFiles ==
    [][ syncOp'.name = "push" =>
          /\ local' = local
          /\ \A p \in Touched :
                /\ remote[p].kind = "file"
                /\ \E q \in LocalFiles : p = RemoteDir \o q ]_vars

Uploads(log) == {i \in 1..Len(log) : log[i].op = "upload"}

\* C13: push_file_to_remote first asks whether the remote destination
\* exists; it calls upload only if it does, once, for the file's path under
\* the destination; if the destination does not exist it raises
\* RemoteResourceNotFound (unless the transport failed the question), calls
\* no upload and leaves the remote store as it was.  With the destination a
\* directory and the transport holding, the file is on the remote with the
\* local contents.
C13_PushFileNeedsParent ==
    [][ syncOp'.name = "push_file" =>
          /\ Len(syncLog') >= 1
          /\ syncLog'[1].op = "check"
          /\ local' = local
          /\ LET rdest == syncLog'[1].path
             IN  /\ Uploads(syncLog') # {} => Exists(remote, rdest)
                 /\ \A i \in Uploads(syncLog') :
                       i = 2 /\ Parent(syncLog'[i].path) = rdest
                 /\ ~Exists(remote, rdest) =>
                       /\ Uploads(syncLog') = {}
                       /\ remote' = remote
                       /\ syncOp'.status \in {"RemoteResourceNotFound", "WebDavException"}
                       /\ syncOp'.failAt = 0 => syncOp'.status = "RemoteResourceNotFound"
                 /\ (IsDir(remote, rdest) /\ syncOp'.failAt = 0) =>
                       /\ Len(syncLog') = 2
                       /\ ~IsDir(remote, syncLog'[2].path) =>
                             /\ syncOp'.status = "ok"
                             /\ \E f \in Names :
                                   /\ syncLog'[2].path = Join(rdest, f)
                                   /\ remote'[Join(rdest, f)] = local[Join(LocalSrc, f)] ]_vars

\* C13 witness: push_file_to_remote into a remote directory that does not
\* exist was refused after the one question, the remote target itself existing.
C13_Witness ==
    /\ syncOp.name = "push_file"
    /\ syncOp.status = "RemoteResourceNotFound"
    /\ syncOp.failAt = 0
    /\ Len(syncLog) = 1
    /\ syncLog[1].op = "check"
    /\ syncLog[1].out = "False"
    /\ ~Exists(remote, syncLog[1].path)
    /\ IsDir(remote, RemoteDir)

\* --------------------------------------------------------------- retiler
RECURSIVE OwnPoints(_)

\* The points in the tile files split off the input file of this retiler
OwnPoints(ids) ==
    IF ids = <<>> THEN 0
    ELSE LET id == Head(ids)
         IN  (IF id.stem = inputFile.stem /\ outFolder[id].kind = "file"
              THEN outFolder[id].points ELSE 0) + OwnPoints(Tail(ids))

AllOpen ==
    /\ inputFile.exists
    /\ inputFile.readable
    /\ \A id \in TileIds : outFolder[id].kind = "file" => outFolder[id].readable

\* C8: when the source file exists and every file opens, validate() returns
\* without raising, and the record says validated exactly when the point counts
\* of the tiles split off the source add up to the source's point count.
C8_ValidatedIffCountsMatch ==
    (validateExc # "-" /\ AllOpen) =>
        /\ validateExc = "none"
        /\ retileRecord.built
        /\ retileRecord.validated <=> (OwnPoints(TileOrder) = inputFile.points)

RECURSIVE OwnCells(_)

\* The cell directories of the tile files split off the input file of this
\* retiler, in the order validate() meets them
OwnCells(ids) ==
    IF ids = <<>> THEN <<>>
    ELSE LET id == Head(ids)
         IN  (IF id.stem = inputFile.stem /\ outFolder[id].kind = "file"
              THEN <<outFolder[id].cell>> ELSE <<>>) \o OwnCells(Tail(ids))

\* C18: the record validate() builds lists in redistributed_to the cell
\* directories of exactly the tile files whose stem is the input file's stem
\* followed by the tile number, and compares the sum of exactly their point
\* counts with the input's; the tiles of another input file in the same
\* output folder are not counted.
C18_CountsOwnTilesOnly ==
    (validateExc = "none" /\ AllOpen) =>
        /\ retileRecord.redistributed_to = OwnCells(TileOrder)
        /\ Len(retileRecord.redistributed_to) =
              Cardinality({id \in TileIds : id.stem = inputFile.stem /\ outFolder[id].kind = "file"})
        /\ retileRecord.validated <=> (OwnPoints(TileOrder) = inputFile.points)

Produced == {k \in TileNumbers : splitOut[k].kind = "file"}

\* C19: when split_and_redistribute() has returned, every tile the splitter
\* wrote for the input file is a file of the cell directory tile_<i>_<j>,
\* (i, j) being the tile index of the midpoint of its bounding box on each
\* axis, with the points it was written with; none of them is left directly
\* in the output folder; and the cell directories hold one file per tile
\* written.
C19_TilesMovedToCentroidCell ==
    splitExc = "none" =>
        /\ \A k \in Produced :
              LET id == [stem |-> inputFile.stem, k |-> k]
                  b == splitOut[k].box
                  cx2 == b.minx + b.maxx
                  cy2 == b.miny + b.maxy
              IN  /\ flatFolder[id].kind = "absent"
                  /\ outFolder[id].kind = "file"
                  /\ outFolder[id].points = splitOut[k].points
                  /\ outFolder[id].cell =
                        GetTileName(GetTileIndex(grid, cx2), GetTileIndex(grid, cy2))
        /\ Cardinality({id \in TileIds : id.stem = inputFile.stem /\ outFolder[id].kind = "file"})
              = Cardinality(Produced)

\* C19 witness: two tiles were written and moved into different cell
\* directories, one of them for a midpoint on the grid's upper edge.
C19_Witness ==
    /\ splitExc = "none"
    /\ Produced = TileNumbers
    /\ grid.min = 0
    /\ splitOut["1"].box.minx + splitOut["1"].box.maxx = 2 * grid.max
    /\ outFolder[[stem |-> inputFile.stem, k |-> "1"]].cell = "tile_1_0"
    /\ outFolder[[stem |-> inputFile.stem, k |-> "2"]].cell = "tile_0_1"

====
